---- MODULE Spec2Model ----
(***************************************************************************)
(* The pomodoro timer of src/main.go.  The file holds two variants of the  *)
(* same bubbletea program (lines 1-209 and 211-422); `variant' says which  *)
(* one runs.  Time is counted in quanta of the timer's Interval (one       *)
(* second).  The bubbles timer (timer.Model) is modelled by what its       *)
(* methods do at the places main.go calls them: Timedout() is Timeout <= 0,*)
(* Running() is running and not timed out, Update accepts a TickMsg only   *)
(* while Running() and for its own ID, and every command (Start, Stop,     *)
(* Toggle, tick, timedout) only produces a message that is delivered later.*)
(* The tag of a TickMsg is never advanced by the timer and is left out.    *)
(***************************************************************************)
EXTENDS Integers, FiniteSets, Bags, TLC

\* Durations, scaled to a few quanta (source: 20 s / 5 min, 25 min / 5 min).
WorkQuanta1 == 2
BreakQuanta1 == 3
WorkQuanta2 == 3
BreakQuanta2 == 2
\* Timers ever created (timer.New draws a fresh ID), messages in flight
\* when a key is pressed, wall-clock quanta since `start'.
MaxID == 3
MaxMsgs == 2
MaxElapsed == 3

Interval == 1
padding == 2
maxWidth == 80
InitialWidth == 40
Widths == {48}

VARIABLES
  variant,       \* 1: lines 1-209, 2: lines 211-422
  Timeout,       \* m.timer.Timeout, in quanta
  running,       \* m.timer.running (the field; Running is derived)
  id,            \* m.timer.id
  startEnabled,  \* m.keymap.start enabled
  stopEnabled,   \* m.keymap.stop enabled
  quitting,      \* m.quitting
  percent,       \* package-level percent, a fraction [num, den]
  progressPct,   \* m.progress: the percent last given to SetPercent (clamped)
  progressWidth, \* m.progress.Width
  elapsed,       \* variant 1: wall-clock quanta since the package-level start
  msgs,          \* bag of messages produced by commands and not yet handled
  terminated,    \* the event loop has handled tea.QuitMsg
  target,        \* history: duration most recently set (start-up, reset, p, w)
  sinceReset,    \* history: the reset key was handled while not quitting, and
                 \* no start/stop or mode key since
  lastKey,       \* history: the key command handled last ("init": none yet);
                 \* for the start/stop key, what its sequence of presses
                 \* should leave: "toggleOn" running, "toggleOff" stopped
  last           \* history: kind of the event handled last

vars == <<variant, Timeout, running, id, startEnabled, stopEnabled, quitting,
          percent, progressPct, progressWidth, elapsed, msgs, terminated,
          target, sinceReset, lastKey, last>>

\* ---------------------------------------------------------------- constants
timeout == IF variant = 1 THEN WorkQuanta1 ELSE WorkQuanta2

breakTime == IF variant = 1 THEN BreakQuanta1 ELSE BreakQuanta2

\* ---------------------------------------------------------------- fractions
Frac(n, d) == [num |-> n, den |-> d]

Zero == Frac(0, timeout)

One == Frac(timeout, timeout)

FracLeq(p, q) == p.num * q.den <= q.num * p.den

FracEq(p, q) == p.num * q.den = q.num * p.den

\* progress.Model.SetPercent: targetPercent = max(0, min(1, p))
SetPercent(p) ==
  IF FracLeq(p, Zero) THEN Zero
  ELSE IF FracLeq(One, p) THEN One
  ELSE p

\* ---------------------------------------------------------------- messages
TickMsg(i) == [type |-> "TickMsg", ID |-> i, running |-> FALSE, due |-> FALSE]

StartStopMsg(i, r) == [type |-> "StartStopMsg", ID |-> i, running |-> r, due |-> TRUE]

TimeoutMsg(i) == [type |-> "TimeoutMsg", ID |-> i, running |-> FALSE, due |-> TRUE]

QuitMsg == [type |-> "QuitMsg", ID |-> 0, running |-> FALSE, due |-> TRUE]

tickMsg == [type |-> "tickMsg", ID |-> 0, running |-> FALSE, due |-> TRUE]

Pending(type) == {m \in BagToSet(msgs) : m.type = type /\ m.due}

\* messages in flight, the display ticks aside
InFlight == BagCardinality(msgs) - CopiesIn(tickMsg, msgs)

Remove(m) == msgs (-) SetToBag({m})

\* tickCmd: tea.Tick(time.Minute): a display tick is in flight.  Several of
\* them are not told apart (their handler changes nothing).
tickCmd(b) == IF BagIn(tickMsg, b) THEN b ELSE b (+) SetToBag({tickMsg})

\* ---------------------------------------------------------------- timer.Model
\* slip: the boundary is left out of the test
TimedoutStrict(t) == t < 0

\* timer.Model.Timedout
Timedout(t) == t <= 0

\* timer.Model.Running
Running(t, r) == ~Timedout(t) /\ r

\* slip: a tick is applied whether or not the timer runs
TimerAcceptsAnyState(msg) == msg.ID = 0 \/ msg.ID = id

\* timer.Model.Update, TickMsg: the message is applied
TimerAccepts(msg) == Running(Timeout, running) /\ (msg.ID = 0 \/ msg.ID = id)

\* slip: the interval is added
TickIncrement(t) == t + Interval

\* timer.Model.Update, TickMsg: m.Timeout -= m.Interval
TickDecrement(t) == t - Interval

\* timer.Model.timedout: a TimeoutMsg when the timer has timed out
timedout(t, i) == IF Timedout(t) THEN SetToBag({TimeoutMsg(i)}) ELSE EmptyBag

\* timer.Model.Update, StartStopMsg: the message is applied
StartStopAccepts(msg) == msg.ID = 0 \/ msg.ID = id

\* timer.Model.Toggle: startStop(!m.Running())
Toggle == StartStopMsg(id, ~Running(Timeout, running))

\* timer.New: nextID()
nextID == id + 1

\* ---------------------------------------------------------------- start-up
Init ==
  /\ variant \in {1, 2}
  /\ Timeout = timeout
  /\ running = TRUE
  /\ id = 1
  /\ startEnabled = (variant = 2)
  /\ stopEnabled = (variant = 1)
  /\ quitting = FALSE
  /\ percent = Zero
  /\ progressPct = Zero
  /\ progressWidth = InitialWidth
  /\ elapsed = 0
  /\ msgs = IF variant = 1
            THEN SetToBag({TickMsg(1), tickMsg})
            ELSE SetToBag({StartStopMsg(1, FALSE), tickMsg})
  /\ terminated = FALSE
  /\ target = timeout
  /\ sinceReset = FALSE
  /\ lastKey = "init"
  /\ last = "init"

\* ---------------------------------------------------------------- time
\* One Interval of wall-clock time passes: the ticks in flight fall due.  A
\* tick that has fallen due is handled before the next interval passes.
Due(b) ==
  LET S == BagToSet(b)
      T == {[m EXCEPT !.due = TRUE] : m \in S}
  IN  [m \in T |->
         (IF m \in S THEN b[m] ELSE 0)
         + (IF [m EXCEPT !.due = FALSE] \in S /\ m.due
            THEN b[[m EXCEPT !.due = FALSE]] ELSE 0)]

Elapse ==
  /\ ~terminated
  /\ elapsed < MaxElapsed
  /\ Pending("TickMsg") = {}
  /\ \/ variant = 1
     \/ \E m \in BagToSet(msgs) : ~m.due
  /\ elapsed' = IF variant = 1 THEN elapsed + 1 ELSE elapsed
  /\ msgs' = Due(msgs)
  /\ UNCHANGED <<sinceReset, lastKey, variant, Timeout, running, id, startEnabled, stopEnabled,
                 quitting, percent, progressPct, progressWidth, terminated,
                 target, last>>

\* ---------------------------------------------------------------- Update
\* slip: the second variant takes the remaining share for the elapsed one
TickPercentRemaining ==
  IF variant = 1
  THEN Frac(elapsed, timeout)
  ELSE Frac(Timeout, timeout)

\* case timer.TickMsg: percent, from time.Since(start) in the first variant,
\* from m.timer.Timeout (before the timer handles the tick) in the second
TickPercent ==
  IF variant = 1
  THEN Frac(elapsed, timeout)
  ELSE Frac(timeout - Timeout, timeout)

\* case timer.TickMsg
UpdateTickMsg(msg) ==
  LET accepted == TimerAccepts(msg)
      t == IF accepted THEN TickDecrement(Timeout) ELSE Timeout
      cmd == IF accepted
             THEN SetToBag({TickMsg(id)}) (+) timedout(t, id)
             ELSE EmptyBag
      pct == TickPercent
  IN  /\ ~terminated
      /\ msg \in Pending("TickMsg")
      /\ Timeout' = t
      /\ percent' = pct
      /\ progressPct' = SetPercent(pct)
      /\ msgs' = IF variant = 1
                 THEN tickCmd(Remove(msg) (+) cmd)
                 ELSE Remove(msg) (+) cmd
      /\ last' = "TickMsg"
      /\ UNCHANGED <<sinceReset, lastKey, variant, running, id, startEnabled, stopEnabled,
                     quitting, progressWidth, elapsed, terminated, target>>

\* slip: the body of the TimeoutMsg case, m.quitting = true included
UpdateStartStopMsgQuits(msg) ==
  LET accepted == StartStopAccepts(msg)
      r == IF accepted THEN msg.running ELSE running
      cmd == IF accepted THEN SetToBag({TickMsg(id)}) ELSE EmptyBag
  IN  /\ ~terminated
      /\ msg \in Pending("StartStopMsg")
      /\ running' = r
      /\ quitting' = TRUE
      /\ stopEnabled' = Running(Timeout, r)
      /\ startEnabled' = ~Running(Timeout, r)
      /\ msgs' = Remove(msg) (+) cmd
      /\ last' = "StartStopMsg"
      /\ UNCHANGED <<sinceReset, lastKey, variant, Timeout, id, percent,
                     progressPct, progressWidth, elapsed, terminated, target>>

\* case timer.StartStopMsg
UpdateStartStopMsg(msg) ==
  LET accepted == StartStopAccepts(msg)
      r == IF accepted THEN msg.running ELSE running
      cmd == IF accepted THEN SetToBag({TickMsg(id)}) ELSE EmptyBag
  IN  /\ ~terminated
      /\ msg \in Pending("StartStopMsg")
      /\ running' = r
      /\ stopEnabled' = Running(Timeout, r)
      /\ startEnabled' = ~Running(Timeout, r)
      /\ msgs' = Remove(msg) (+) cmd
      /\ last' = "StartStopMsg"
      /\ UNCHANGED <<sinceReset, lastKey, variant, Timeout, id, quitting, percent, progressPct,
                     progressWidth, elapsed, terminated, target>>

\* case timer.TimeoutMsg
UpdateTimeoutMsg(msg) ==
  /\ ~terminated
  /\ msg \in Pending("TimeoutMsg")
  /\ quitting' = TRUE
  /\ stopEnabled' = Running(Timeout, running)
  /\ startEnabled' = ~Running(Timeout, running)
  /\ msgs' = Remove(msg)
  /\ last' = "TimeoutMsg"
  /\ UNCHANGED <<sinceReset, lastKey, variant, Timeout, running, id, percent, progressPct,
                 progressWidth, elapsed, terminated, target>>

\* case tea.KeyMsg, m.keymap.quit
KeyQuit ==
  /\ ~terminated
  /\ InFlight < MaxMsgs
  /\ quitting' = TRUE
  /\ msgs' = msgs (+) SetToBag({QuitMsg})
  /\ lastKey' = "quit"
  /\ last' = "quit"
  /\ UNCHANGED <<sinceReset, variant, Timeout, running, id, startEnabled, stopEnabled,
                 percent, progressPct, progressWidth, elapsed, terminated,
                 target>>

\* the start binding as the reset key leaves it
ResetStartEnabled == (variant = 2)

\* case tea.KeyMsg, m.keymap.reset
KeyReset ==
  /\ ~terminated
  /\ InFlight < MaxMsgs
  /\ variant = 2 => id < MaxID
  /\ Timeout' = timeout
  /\ target' = timeout
  /\ startEnabled' = ResetStartEnabled
  /\ sinceReset' = ~quitting
  /\ lastKey' = "reset"
  /\ last' = "reset"
  /\ IF variant = 1
     THEN /\ percent' = Zero
          /\ elapsed' = 0
          /\ UNCHANGED <<running, id, progressPct, msgs>>
     ELSE /\ progressPct' = SetPercent(Zero)
          /\ running' = TRUE
          /\ id' = nextID
          /\ msgs' = msgs (+) SetToBag({StartStopMsg(nextID, FALSE)})
          /\ UNCHANGED <<percent, elapsed>>
  /\ UNCHANGED <<variant, stopEnabled, quitting, progressWidth, terminated>>

\* history of the start/stop key: the first press of a sequence (no start/stop
\* message of an earlier command in flight, clock not timed out) should
\* leave the clock as Toggle sees fit, every further press the other way
ToggleExpect ==
  IF Timedout(Timeout) \/ lastKey = "toggleX" THEN "toggleX"
  ELSE IF lastKey = "toggleOn" THEN "toggleOff"
  ELSE IF lastKey = "toggleOff" THEN "toggleOn"
  ELSE IF \E m \in BagToSet(msgs) : m.type = "StartStopMsg" THEN "toggleX"
  ELSE IF Running(Timeout, running) THEN "toggleOff"
  ELSE "toggleOn"

\* case tea.KeyMsg, m.keymap.start or m.keymap.stop (key.Matches: enabled)
KeyToggle ==
  /\ ~terminated
  /\ InFlight < MaxMsgs
  /\ startEnabled \/ stopEnabled
  /\ msgs' = msgs (+) SetToBag({Toggle})
  /\ sinceReset' = FALSE
  /\ lastKey' = ToggleExpect
  /\ last' = "toggle"
  /\ UNCHANGED <<variant, Timeout, running, id, startEnabled, stopEnabled,
                 quitting, percent, progressPct, progressWidth, elapsed,
                 terminated, target>>

\* case tea.KeyMsg, m.keymap.pauseTimer (d = breakTime, "pause") and
\* m.keymap.workTimer (d = timeout, "work")
KeyMode(d, kind) ==
  /\ ~terminated
  /\ InFlight < MaxMsgs
  /\ variant = 2 => id < MaxID
  /\ Timeout' = d
  /\ target' = d
  /\ sinceReset' = FALSE
  /\ lastKey' = kind
  /\ last' = kind
  /\ IF variant = 1
     THEN /\ msgs' = msgs (+) SetToBag({StartStopMsg(id, TRUE)})
          /\ UNCHANGED <<running, id, progressPct>>
     ELSE /\ progressPct' = SetPercent(Zero)
          /\ running' = TRUE
          /\ id' = nextID
          /\ msgs' = msgs (+) SetToBag({StartStopMsg(nextID, TRUE)})
  /\ UNCHANGED <<variant, startEnabled, stopEnabled, quitting, percent,
                 progressWidth, elapsed, terminated>>

KeyPause == KeyMode(breakTime, "pause")

KeyWork == KeyMode(timeout, "work")

\* case tea.KeyMsg, the start/stop key while neither binding is enabled:
\* no case matches
KeyUnmatched ==
  /\ ~terminated
  /\ ~(startEnabled \/ stopEnabled)
  /\ last' = "unmatched"
  /\ UNCHANGED <<sinceReset, lastKey, variant, Timeout, running, id, startEnabled, stopEnabled,
                 quitting, percent, progressPct, progressWidth, elapsed, msgs,
                 terminated, target>>

\* case tea.WindowSizeMsg
UpdateWindowSizeMsg(w) ==
  /\ ~terminated
  /\ progressWidth' = IF w - padding * 2 - 4 > maxWidth
                      THEN maxWidth ELSE w - padding * 2 - 4
  /\ last' = "WindowSizeMsg"
  /\ UNCHANGED <<sinceReset, lastKey, variant, Timeout, running, id, startEnabled, stopEnabled,
                 quitting, percent, progressPct, elapsed, msgs, terminated,
                 target>>

\* slip: the display tick is counted as a tick of the timer
UpdateTickCmdMsgAdvances ==
  /\ ~terminated
  /\ tickMsg \in Pending("tickMsg")
  /\ msgs' = Remove(tickMsg)
  /\ Timeout' = IF Running(Timeout, running)
                THEN TickDecrement(Timeout) ELSE Timeout
  /\ last' = "tickMsg"
  /\ UNCHANGED <<sinceReset, lastKey, variant, running, id, startEnabled,
                 stopEnabled, quitting, percent, progressPct, progressWidth,
                 elapsed, terminated, target>>

\* default: the display tick of tickCmd
UpdateTickCmdMsg ==
  /\ ~terminated
  /\ tickMsg \in Pending("tickMsg")
  /\ msgs' = Remove(tickMsg)
  /\ last' = "tickMsg"
  /\ UNCHANGED <<sinceReset, lastKey, variant, Timeout, running, id, startEnabled, stopEnabled,
                 quitting, percent, progressPct, progressWidth, elapsed,
                 terminated, target>>

\* tea.QuitMsg reaches the event loop: the program ends
UpdateQuitMsg ==
  /\ ~terminated
  /\ QuitMsg \in Pending("QuitMsg")
  /\ terminated' = TRUE
  /\ msgs' = Remove(QuitMsg)
  /\ last' = "QuitMsg"
  /\ UNCHANGED <<sinceReset, lastKey, variant, Timeout, running, id, startEnabled, stopEnabled,
                 quitting, percent, progressPct, progressWidth, elapsed,
                 target>>

DeliverTick == \E msg \in BagToSet(msgs) : UpdateTickMsg(msg)

DeliverStartStop == \E msg \in BagToSet(msgs) : UpdateStartStopMsg(msg)

DeliverTimeout == \E msg \in BagToSet(msgs) : UpdateTimeoutMsg(msg)

Resize == \E w \in Widths : UpdateWindowSizeMsg(w)

Next ==
  \/ Elapse
  \/ DeliverTick
  \/ DeliverStartStop
  \/ DeliverTimeout
  \/ UpdateTickCmdMsg
  \/ UpdateQuitMsg
  \/ Resize
  \/ KeyQuit
  \/ KeyReset
  \/ KeyToggle
  \/ KeyPause
  \/ KeyWork
  \/ KeyUnmatched

Spec == Init /\ [][Next]_vars

\* ---------------------------------------------------------------- properties
\* what a redraw shows of the clock and the bindings
Observable ==
  <<Timeout, Running(Timeout, running), Timedout(Timeout), percent,
    startEnabled, stopEnabled>>

KeyCommand == KeyQuit \/ KeyReset \/ KeyToggle \/ KeyPause \/ KeyWork

QuitHandled == terminated \/ BagIn(QuitMsg, msgs)

NoStartStopPending == \A m \in BagToSet(msgs) : m.type # "StartStopMsg"

NoTickInFlight == \A m \in BagToSet(msgs) : m.type # "TickMsg"

\* what View renders as progress: ViewAs(percent) in the first variant,
\* m.progress.View() in the second
Shown == IF variant = 1 THEN percent ELSE progressPct

\* C1: remaining is within [0, the duration most recently set]; the clock is
\* timed out exactly when remaining is 0; it is never running while timed out.
C1_ClockInvariant ==
  /\ 0 <= Timeout
  /\ Timeout <= target
  /\ Timedout(Timeout) <=> Timeout = 0
  /\ ~(Running(Timeout, running) /\ Timedout(Timeout))

\* C1 witness: ticks have driven a clock retargeted to the break duration to 0.
C1_Witness == Timeout = 0 /\ target = breakTime /\ last = "TickMsg"

\* C2: handling a timer tick never increases remaining and never takes it
\* below 0.
C2_MonotonicCountdown ==
  [][DeliverTick => (Timeout' <= Timeout /\ Timeout' >= 0)]_vars

\* C2 witness: a tick has decreased remaining and the clock still runs.
C2_Witness ==
  last = "TickMsg" /\ Timeout < target /\ Running(Timeout, running)

\* C3: the package-level percent is within [0, 1], and it is 0 right after the
\* reset key or a mode-switch key has been handled.
C3_PercentBounds ==
  /\ FracLeq(Zero, percent)
  /\ FracLeq(percent, One)
  /\ last \in {"reset", "pause", "work"} => FracEq(percent, Zero)

\* C4: after every handled timer tick, percent equals
\* (target - remaining) / target for the duration last set.
C4_PercentDerived ==
  last = "TickMsg" => FracEq(percent, Frac(target - Timeout, target))

\* C5: once remaining is 0, every event other than the reset key and the
\* mode-switch keys (further ticks, start/stop toggles and their messages)
\* leaves remaining at 0, the clock timed out and not running.
C5_TimeoutTerminal ==
  [][(Timeout = 0 /\ ~(KeyReset \/ KeyPause \/ KeyWork))
       => (Timeout' = 0 /\ Timedout(Timeout')
           /\ ~Running(Timeout', running'))]_vars

\* C5 witness: the clock is at 0 and a further tick has been handled there
\* (the tick that reaches 0 always leaves its successor in flight).
C5_Witness == Timeout = 0 /\ last = "TickMsg" /\ NoTickInFlight

\* C6: exactly one of keymap.start and keymap.stop is enabled, and stop is the
\* enabled one exactly when the clock is running.
C6_ExclusivePair ==
  /\ startEnabled # stopEnabled
  /\ stopEnabled <=> Running(Timeout, running)

\* C7: a key command handled while quitting is true changes neither remaining,
\* running, timedOut, percent nor the enabled bindings.
C7_QuittingIgnores ==
  [][(quitting /\ KeyCommand) => UNCHANGED Observable]_vars

\* C8: once the quit key has been handled, nothing handled afterwards changes
\* remaining, running, timedOut, percent, quitting or the enabled bindings.
C8_QuitTerminal ==
  [][QuitHandled => UNCHANGED <<Observable, quitting>>]_vars

\* C9: after the reset key (handled while not quitting), once no start/stop
\* message is in flight and until a toggle or mode-switch key is handled,
\* remaining is the work duration, the shown progress is 0 and the clock is
\* stopped.
C9_ResetStops ==
  (sinceReset /\ NoStartStopPending)
    => /\ Timeout = timeout
       /\ FracEq(Shown, Zero)
       /\ ~Running(Timeout, running)

\* C10: in the state the reset key's handler returns, the start binding is
\* enabled.
C10_ResetEnablesStart == last = "reset" => startEnabled

\* a tick in flight that the current clock would apply
LiveTicks == {m \in BagToSet(msgs) : m.type = "TickMsg" /\ m.ID = id}

\* C11: a mode-switch key handled while not quitting sets remaining to the
\* break (p) or work (w) duration and the shown progress to 0; the start
\* message it produced leaves the clock running; and after the following
\* ticks percent is (target - remaining) / target for the new duration.
C11_ModeSwitchRetargets ==
  /\ [](/\ (last = "pause" /\ ~quitting)
             => (Timeout = breakTime /\ FracEq(Shown, Zero))
        /\ (last = "work" /\ ~quitting)
             => (Timeout = timeout /\ FracEq(Shown, Zero))
        /\ (lastKey \in {"pause", "work"} /\ ~quitting /\ last = "TickMsg")
             => FracEq(percent, Frac(target - Timeout, target)))
  /\ [][(lastKey \in {"pause", "work"} /\ ~quitting /\ ~Timedout(Timeout)
         /\ \E m \in BagToSet(msgs) :
              m.running /\ m.ID = id /\ UpdateStartStopMsg(m))
          => Running(Timeout', running')]_vars

\* C12: a freshly retargeted running clock (start-up of the first variant, or
\* a mode-switch key) with no key command since: when the tick that takes
\* remaining to 0 and the TimeoutMsg it produced have been handled, and the
\* successor of that tick is still in flight, the clock is timed out and
\* percent is 1.
C12_FullRun ==
  (/\ lastKey \in {"init", "pause", "work"}
   /\ Timeout = 0
   /\ last = "TimeoutMsg"
   /\ Cardinality(LiveTicks) = 1
   /\ \A m \in LiveTicks : ~m.due /\ CopiesIn(m, msgs) = 1)
    => (Timedout(Timeout) /\ FracEq(percent, One))

\* C13: after a sequence of start/stop key presses (clock not timed out, no
\* other command in between), once no start/stop message is in flight, the
\* clock runs iff it ran before the first press and the number of presses is
\* even, or it did not and the number is odd.
C13_ToggleParity ==
  (/\ lastKey \in {"toggleOn", "toggleOff"}
   /\ NoStartStopPending
   /\ ~Timedout(Timeout))
    => (Running(Timeout, running) <=> lastKey = "toggleOn")

C14_PackagePercentMonotonic ==
  [][~(KeyReset \/ KeyPause \/ KeyWork) => FracLeq(percent, percent')]_vars

C15_ResizeAndDisplayTickFrame ==
  [][(Resize \/ UpdateTickCmdMsg) => UNCHANGED <<Observable, quitting>>]_vars

\* C15 witness: a resize has been handled while the clock was counting down.
C15_Witness ==
  /\ last = "WindowSizeMsg"
  /\ Running(Timeout, running)
  /\ Timeout < target

C17_SingleTickChain ==
  Running(Timeout, running)
    => \A m \in LiveTicks : LiveTicks = {m} /\ CopiesIn(m, msgs) = 1

\* C18: a running clock always has what its countdown needs: a tick it would
\* apply, or a start/stop message whose handler schedules one, is in flight
\* (otherwise, with no further key press, remaining never reaches 0).
C18_RunningClockTicks ==
  Running(Timeout, running)
    => \/ LiveTicks # {}
       \/ \E m \in BagToSet(msgs) : m.type = "StartStopMsg" /\ m.ID = id

\* C19: in a non-quitting state with the clock stopped, not timed out and no
\* start/stop message in flight, the start or the stop binding is enabled.
C19_StartKeyMatches ==
  (/\ ~quitting
   /\ ~terminated
   /\ ~Running(Timeout, running)
   /\ ~Timedout(Timeout)
   /\ NoStartStopPending)
    => (startEnabled \/ stopEnabled)

====
